---- MODULE Spec2Model ----
(***************************************************************************)
(* The WebSocket broadcast relay of src/websockets/app.js.                 *)
(*                                                                         *)
(* The relay is a single-threaded Node.js process: every event handler     *)
(* (connection, message, close, error, SIGINT, server error) runs to       *)
(* completion before the next one starts, so each handler is one action.   *)
(* The transports (the ws sockets) are the environment: they change their  *)
(* readyState on their own and a send on them may throw.                   *)
(***************************************************************************)
EXTENDS Integers, Sequences, FiniteSets, TLC

\* Bounds of the model: how many connections are accepted and how many
\* broadcast passes run in one behaviour.
MaxConnections == 3
MaxBroadcasts == 1

VARIABLES
    connections,          \* the Map connectionId -> ws, as its keys in insertion order
    connectionIdCounter,  \* let connectionIdCounter
    readyState,           \* ws.readyState of every socket accepted so far
    received,             \* the frames each socket was sent, in order
    server,               \* wss / process: starting, listening, closing, exited
    exitCode,             \* the argument of process.exit, -1 while running
    broadcasts,           \* number of broadcast passes run so far
    inbox,                \* the frames that arrived on each socket, in order, and
                          \* how many of them the message handler has run for
    lastEvent             \* what the last handler did and logged

vars == <<connections, connectionIdCounter, readyState, received, server,
          exitCode, broadcasts, inbox, lastEvent>>

----------------------------------------------------------------------------
\* The JavaScript Map, restricted to what the relay uses.  A Map iterates in
\* insertion order, so it is kept as the sequence of its keys; the value of
\* key k is the socket of connection k.

MapKeys(m) == {m[i] : i \in 1..Len(m)}

MapHas(m, k) == k \in MapKeys(m)

MapSize(m) == Len(m)

\* A set that stores the socket under the key of the newest entry.
MapSetOverLast(m, k) ==
    IF m = <<>> THEN <<k>> ELSE [m EXCEPT ![Len(m)] = k]

\* Map.prototype.set: a new key is appended, an existing key keeps its place.
MapSet(m, k) == IF MapHas(m, k) THEN m ELSE Append(m, k)

\* A delete that compares with > instead of !==.
MapDeleteUpTo(m, k) == SelectSeq(m, LAMBDA x : x > k)

\* A delete by position, array style: splice(indexOf(k), 1), which removes
\* the last entry when k is absent.
MapDeleteSplice(m, k) ==
    IF \E i \in 1..Len(m) : m[i] = k
    THEN SelectSeq(m, LAMBDA x : x # k)
    ELSE SubSeq(m, 1, Len(m) - 1)

\* Map.prototype.delete: removes the key if present, no error if absent.
MapDelete(m, k) == SelectSeq(m, LAMBDA x : x # k)

----------------------------------------------------------------------------
\* Inbound frames and JSON.parse.

FrameHello == "{\"action\":\"sendmessage\",\"data\":\"hello\"}"
FrameHi == "{\"action\":\"sendmessage\",\"data\":\"hi\"}"
FrameEmptyData == "{\"action\":\"sendmessage\",\"data\":\"\"}"
FrameNoData == "{\"action\":\"sendmessage\"}"
FramePing == "{\"action\":\"ping\"}"
FrameUnknown == "{\"action\":\"unknown\",\"data\":\"hello\"}"
FrameNoAction == "{\"data\":\"hello\"}"
FrameNull == "null"
FrameNotJson == "not valid json"

\* The frames the clients send in Spec.
Frames == {FrameHello, FrameEmptyData, FrameNoData, FramePing,
           FrameUnknown, FrameNoAction, FrameNull, FrameNotJson}

\* JSON.parse on the frames above: a SyntaxError, the value null, or an
\* object given by its own properties.
JSONParse(message) ==
    CASE message = FrameHello     -> [kind |-> "object", props |-> [action |-> "sendmessage", data |-> "hello"]]
      [] message = FrameHi        -> [kind |-> "object", props |-> [action |-> "sendmessage", data |-> "hi"]]
      [] message = FrameEmptyData -> [kind |-> "object", props |-> [action |-> "sendmessage", data |-> ""]]
      [] message = FrameNoData    -> [kind |-> "object", props |-> [action |-> "sendmessage"]]
      [] message = FramePing      -> [kind |-> "object", props |-> [action |-> "ping"]]
      [] message = FrameUnknown   -> [kind |-> "object", props |-> [action |-> "unknown", data |-> "hello"]]
      [] message = FrameNoAction  -> [kind |-> "object", props |-> [data |-> "hello"]]
      [] message = FrameNull      -> [kind |-> "null", props |-> <<>>]
      [] OTHER                    -> [kind |-> "SyntaxError", props |-> <<>>]

\* A property read on the parsed value is undefined when the property is absent.
HasProp(parsedMessage, name) ==
    /\ parsedMessage.kind = "object"
    /\ name \in DOMAIN parsedMessage.props

\* A test of presence: any string passes, the empty one included.
TruthyAlways(s) == TRUE

\* Truthiness of a string: only the empty string is falsy.
Truthy(s) == s # ""

\* A check of the data field alone.
IsSendMessageDataOnly(parsedMessage) ==
    /\ HasProp(parsedMessage, "data")
    /\ Truthy(parsedMessage.props.data)

\* A check that an action is given, whatever it is.
IsSendMessageAnyAction(parsedMessage) ==
    /\ HasProp(parsedMessage, "action")
    /\ HasProp(parsedMessage, "data")
    /\ Truthy(parsedMessage.props.data)

\* parsedMessage.action === 'sendmessage' && parsedMessage.data
IsSendMessage(parsedMessage) ==
    /\ HasProp(parsedMessage, "action")
    /\ parsedMessage.props.action = "sendmessage"
    /\ HasProp(parsedMessage, "data")
    /\ Truthy(parsedMessage.props.data)

\* What the message handler does with a frame: the try block throws (the
\* SyntaxError of JSON.parse, or the TypeError of reading .action of null) and
\* the catch logs it; the else branch logs a warning; or the frame is broadcast.
Outcome(message) ==
    LET parsedMessage == JSONParse(message) IN
    IF parsedMessage.kind # "object" THEN "error"
    ELSE IF IsSendMessage(parsedMessage) THEN "broadcast"
    ELSE "warning"

----------------------------------------------------------------------------
\* The broadcast pass: connections.forEach((clientWs, clientId) => ...).

\* A pass that forwards the frame as it came in.
MessageDataWholeFrame(message) == message

\* const messageData = parsedMessage.data
MessageData(message) == JSONParse(message).props.data

\* clientWs.send(messageData) that returns: the socket is sent one frame.
Send(recv, clientId, messageData) ==
    [recv EXCEPT ![clientId] = Append(@, messageData)]

\* The accumulator a pass starts from.
PassStart(conns, recv) ==
    [connections |-> conns, received |-> recv,
     successCount |-> 0, failCount |-> 0,
     visited |-> <<>>, sent |-> {}, failed |-> {}, pruned |-> {}]

\* An if branch whose catch also deletes the entry.
OpenBranchDeleteOnThrow(acc, clientId, messageData, throws) ==
    IF clientId \in throws
    THEN [acc EXCEPT !.connections = MapDelete(@, clientId),
                     !.failCount = @ + 1,
                     !.failed = @ \cup {clientId},
                     !.visited = Append(@, clientId)]
    ELSE [acc EXCEPT !.received = Send(@, clientId, messageData),
                     !.successCount = @ + 1,
                     !.sent = @ \cup {clientId},
                     !.visited = Append(@, clientId)]

\* A catch that logs the failure and does not count it.
OpenBranchThrowUncounted(acc, clientId, messageData, throws) ==
    IF clientId \in throws
    THEN [acc EXCEPT !.failed = @ \cup {clientId},
                     !.visited = Append(@, clientId)]
    ELSE [acc EXCEPT !.received = Send(@, clientId, messageData),
                     !.successCount = @ + 1,
                     !.sent = @ \cup {clientId},
                     !.visited = Append(@, clientId)]

\* A catch that sends again, and the second send goes through.
OpenBranchRetry(acc, clientId, messageData, throws) ==
    IF clientId \in throws
    THEN [acc EXCEPT !.received = Send(@, clientId, messageData),
                     !.failCount = @ + 1,
                     !.failed = @ \cup {clientId},
                     !.visited = Append(Append(@, clientId), clientId)]
    ELSE [acc EXCEPT !.received = Send(@, clientId, messageData),
                     !.successCount = @ + 1,
                     !.sent = @ \cup {clientId},
                     !.visited = Append(@, clientId)]

\* The if branch: the socket reports OPEN.  send either returns
\* (successCount++) or throws (the catch logs it and failCount++).
OpenBranch(acc, clientId, messageData, throws) ==
    IF clientId \in throws
    THEN [acc EXCEPT !.failCount = @ + 1,
                     !.failed = @ \cup {clientId},
                     !.visited = Append(@, clientId)]
    ELSE [acc EXCEPT !.received = Send(@, clientId, messageData),
                     !.successCount = @ + 1,
                     !.sent = @ \cup {clientId},
                     !.visited = Append(@, clientId)]

\* An else branch that counts the failure and keeps the entry.
CleanupBranchKeep(acc, clientId) ==
    [acc EXCEPT !.failCount = @ + 1,
                !.pruned = @ \cup {clientId},
                !.visited = Append(@, clientId)]

\* An else branch that tells the socket it removes that it was removed.
CleanupBranchNotify(acc, clientId) ==
    [acc EXCEPT !.connections = MapDelete(@, clientId),
                !.received = Send(@, clientId, "removed"),
                !.failCount = @ + 1,
                !.pruned = @ \cup {clientId},
                !.visited = Append(@, clientId)]

\* The else branch: connections.delete(clientId) and failCount++.
CleanupBranch(acc, clientId) ==
    [acc EXCEPT !.connections = MapDelete(@, clientId),
                !.failCount = @ + 1,
                !.pruned = @ \cup {clientId},
                !.visited = Append(@, clientId)]

\* A callback that leaves the sender out.
CallbackSkipSender(acc, clientId, connectionId, messageData, throws) ==
    IF clientId = connectionId THEN acc
    ELSE IF readyState[clientId] = "OPEN"
         THEN OpenBranch(acc, clientId, messageData, throws)
         ELSE CleanupBranch(acc, clientId)

\* A callback that treats a throwing send like a socket that is not open.
CallbackPruneOnThrow(acc, clientId, connectionId, messageData, throws) ==
    IF readyState[clientId] = "OPEN" /\ clientId \notin throws
    THEN OpenBranch(acc, clientId, messageData, throws)
    ELSE CleanupBranch(acc, clientId)

\* A callback that tests readyState !== WebSocket.CLOSED.
CallbackNotClosedCountsAsOpen(acc, clientId, connectionId, messageData, throws) ==
    IF readyState[clientId] # "CLOSED"
    THEN OpenBranch(acc, clientId, messageData, throws)
    ELSE CleanupBranch(acc, clientId)

\* The callback of forEach for one entry; connectionId is the sender, which
\* the callback has in scope and does not look at.
Callback(acc, clientId, connectionId, messageData, throws) ==
    IF readyState[clientId] = "OPEN"
    THEN OpenBranch(acc, clientId, messageData, throws)
    ELSE CleanupBranch(acc, clientId)

\* An iteration without the inner try: the first send that throws ends it.
RECURSIVE ForEachAbortOnThrow(_, _, _, _, _)
ForEachAbortOnThrow(todo, acc, connectionId, messageData, throws) ==
    IF todo = <<>> THEN acc
    ELSE IF ~MapHas(acc.connections, Head(todo))
         THEN ForEachAbortOnThrow(Tail(todo), acc, connectionId, messageData, throws)
         ELSE IF readyState[Head(todo)] = "OPEN" /\ Head(todo) \in throws
              THEN Callback(acc, Head(todo), connectionId, messageData, throws)
              ELSE ForEachAbortOnThrow(Tail(todo),
                       Callback(acc, Head(todo), connectionId, messageData, throws),
                       connectionId, messageData, throws)

\* An iteration by index over an array of entries: removing the entry
\* being visited shifts the rest, and the entry after it is skipped.
RECURSIVE ForEachSkipAfterDelete(_, _, _, _, _)
ForEachSkipAfterDelete(todo, acc, connectionId, messageData, throws) ==
    IF todo = <<>> THEN acc
    ELSE LET next == Callback(acc, Head(todo), connectionId, messageData, throws) IN
         IF MapHas(next.connections, Head(todo)) \/ Len(todo) = 1
         THEN ForEachSkipAfterDelete(Tail(todo), next, connectionId, messageData, throws)
         ELSE ForEachSkipAfterDelete(Tail(Tail(todo)), next, connectionId,
                                     messageData, throws)

\* Map.prototype.forEach: the entries in insertion order; an entry deleted
\* before it is reached is not visited, and deleting the entry being visited
\* does not disturb the rest of the iteration.
RECURSIVE ForEach(_, _, _, _, _)
ForEach(todo, acc, connectionId, messageData, throws) ==
    IF todo = <<>> THEN acc
    ELSE IF ~MapHas(acc.connections, Head(todo))
         THEN ForEach(Tail(todo), acc, connectionId, messageData, throws)
         ELSE ForEach(Tail(todo),
                      Callback(acc, Head(todo), connectionId, messageData, throws),
                      connectionId, messageData, throws)

\* A handler that puts its own connection into the Map after the pass.
BroadcastRegisterSender(connectionId, messageData, throws) ==
    [ForEach(connections, PassStart(connections, received),
             connectionId, messageData, throws)
        EXCEPT !.connections = MapSet(@, connectionId)]

\* A handler that runs the pass only for a connection that is in the Map.
BroadcastIfRegistered(connectionId, messageData, throws) ==
    IF MapHas(connections, connectionId)
    THEN ForEach(connections, PassStart(connections, received),
                 connectionId, messageData, throws)
    ELSE PassStart(connections, received)

\* The whole pass run by the message handler of connectionId.
Broadcast(connectionId, messageData, throws) ==
    ForEach(connections, PassStart(connections, received),
            connectionId, messageData, throws)

----------------------------------------------------------------------------
\* Node runs one handler at a time, to completion.  lastEvent is the turn of
\* the event loop that has just run: the handler, the connection and frame it
\* ran for, the branch it took, the state it started from and what the
\* broadcast pass logged.  It is IdleEvent while the loop waits for an event.

Event(op, id, frame, outcome, pass) ==
    [op |-> op, id |-> id, frame |-> frame, outcome |-> outcome,
     before |-> connections, counterBefore |-> connectionIdCounter,
     stateBefore |-> readyState, receivedBefore |-> received,
     serverBefore |-> server,
     visited |-> pass.visited, sent |-> pass.sent, failed |-> pass.failed,
     pruned |-> pass.pruned,
     successCount |-> pass.successCount, failCount |-> pass.failCount]

IdleEvent ==
    [op |-> "idle", id |-> 0, frame |-> "", outcome |-> "none",
     before |-> <<>>, counterBefore |-> 0,
     stateBefore |-> <<>>, receivedBefore |-> <<>>,
     serverBefore |-> "starting",
     visited |-> <<>>, sent |-> {}, failed |-> {}, pruned |-> {},
     successCount |-> 0, failCount |-> 0]

NoPass == PassStart(connections, received)

LoopIdle == lastEvent.op = "idle"

Running == server \in {"listening", "closing"}

Accepted == DOMAIN readyState

Init ==
    /\ connections = <<>>
    /\ connectionIdCounter = 0
    /\ readyState = <<>>
    /\ received = <<>>
    /\ server = "starting"
    /\ exitCode = -1
    /\ broadcasts = 0
    /\ inbox = <<>>
    /\ lastEvent = IdleEvent

\* wss.on('listening'): the bind succeeded.
Listening ==
    /\ LoopIdle
    /\ server = "starting"
    /\ server' = "listening"
    /\ lastEvent' = Event("listening", 0, "", "none", NoPass)
    /\ UNCHANGED <<inbox, connections, connectionIdCounter, readyState, received,
                   exitCode, broadcasts>>

\* An identifier taken without incrementing the counter.
NextIdNoIncrement(counter) == counter

\* An identifier taken with -- instead of ++.
NextIdDecrement(counter) == counter - 1

\* A counter that wraps around.
NextIdWrap(counter) == (counter % 2) + 1

\* const connectionId = ++connectionIdCounter
NextId(counter) == counter + 1

\* wss.on('connection'): a socket handed to the handler is OPEN.
Connection ==
    /\ LoopIdle
    /\ server = "listening"
    /\ connectionIdCounter < MaxConnections
    /\ LET connectionId == NextId(connectionIdCounter) IN
        /\ connectionIdCounter' = connectionId
        /\ connections' = MapSet(connections, connectionId)
        /\ readyState' = (connectionId :> "OPEN") @@ readyState
        /\ received' = (connectionId :> <<>>) @@ received
        /\ inbox' = (connectionId :> [arrived |-> <<>>, handled |-> 0]) @@ inbox
        /\ lastEvent' = Event("connection", connectionId, "", "none", NoPass)
    /\ UNCHANGED <<server, exitCode, broadcasts>>

\* ws.on('message') of connection connectionId.  A socket delivers frames
\* until it is CLOSED, whether or not it is still in the Map.  throws is the
\* set of sockets on which send would throw during this handler.
OnMessage(connectionId, message, throws) ==
    /\ LoopIdle
    /\ Running
    /\ connectionId \in Accepted
    /\ readyState[connectionId] # "CLOSED"
    /\ IF Outcome(message) = "broadcast"
       THEN /\ LET pass == Broadcast(connectionId, MessageData(message), throws) IN
                /\ connections' = pass.connections
                /\ received' = pass.received
                /\ lastEvent' = Event("message", connectionId, message, "broadcast", pass)
            /\ broadcasts' = broadcasts + 1
       ELSE /\ throws = {}
            /\ lastEvent' = Event("message", connectionId, message, Outcome(message), NoPass)
            /\ UNCHANGED <<connections, received, broadcasts>>
    /\ UNCHANGED <<connectionIdCounter, readyState, server, exitCode>>

\* A close handler that only logs.
OnCloseNoDelete(connectionId) ==
    /\ LoopIdle
    /\ Running
    /\ connectionId \in Accepted
    /\ readyState[connectionId] = "CLOSED"
    /\ lastEvent' = Event("close", connectionId, "", "none", NoPass)
    /\ UNCHANGED <<inbox, connections, connectionIdCounter, readyState, received,
                   server, exitCode, broadcasts>>

\* ws.on('close') of connection connectionId: ws emits the event once the
\* socket is CLOSED.
OnClose(connectionId) ==
    /\ LoopIdle
    /\ Running
    /\ connectionId \in Accepted
    /\ readyState[connectionId] = "CLOSED"
    /\ connections' = MapDelete(connections, connectionId)
    /\ lastEvent' = Event("close", connectionId, "", "none", NoPass)
    /\ UNCHANGED <<inbox, connectionIdCounter, readyState, received, server,
                   exitCode, broadcasts>>

\* An error handler that only logs.
OnErrorNoDelete(connectionId) ==
    /\ LoopIdle
    /\ Running
    /\ connectionId \in Accepted
    /\ readyState[connectionId] = "CLOSING"
    /\ lastEvent' = Event("error", connectionId, "", "none", NoPass)
    /\ UNCHANGED <<inbox, connections, connectionIdCounter, readyState, received,
                   server, exitCode, broadcasts>>

\* An error handler that empties the Map.
OnErrorClearsAll(connectionId) ==
    /\ LoopIdle
    /\ Running
    /\ connectionId \in Accepted
    /\ readyState[connectionId] = "CLOSING"
    /\ connections' = <<>>
    /\ lastEvent' = Event("error", connectionId, "", "none", NoPass)
    /\ UNCHANGED <<inbox, connectionIdCounter, readyState, received, server,
                   exitCode, broadcasts>>

\* ws.on('error') of connection connectionId: ws emits the event after it
\* has started to close the socket and before the socket is CLOSED.
OnError(connectionId) ==
    /\ LoopIdle
    /\ Running
    /\ connectionId \in Accepted
    /\ readyState[connectionId] = "CLOSING"
    /\ connections' = MapDelete(connections, connectionId)
    /\ lastEvent' = Event("error", connectionId, "", "none", NoPass)
    /\ UNCHANGED <<inbox, connectionIdCounter, readyState, received, server,
                   exitCode, broadcasts>>

\* A shutdown that does not close the sockets.
CloseKeepOpen(state) == state

\* ws.close(): an OPEN socket starts its closing handshake.
Close(state) == IF state = "OPEN" THEN "CLOSING" ELSE state

\* A shutdown that also empties the Map.
SigintClearsRegistry ==
    /\ LoopIdle
    /\ Running
    /\ readyState' = [id \in Accepted |->
                        IF MapHas(connections, id) THEN Close(readyState[id])
                        ELSE readyState[id]]
    /\ connections' = <<>>
    /\ server' = "closing"
    /\ lastEvent' = Event("SIGINT", 0, "", "none", NoPass)
    /\ UNCHANGED <<inbox, connectionIdCounter, received, exitCode, broadcasts>>

\* process.on('SIGINT'): ws.close() on every entry, then wss.close(callback).
Sigint ==
    /\ LoopIdle
    /\ Running
    /\ readyState' = [id \in Accepted |->
                        IF MapHas(connections, id) THEN Close(readyState[id])
                        ELSE readyState[id]]
    /\ server' = "closing"
    /\ lastEvent' = Event("SIGINT", 0, "", "none", NoPass)
    /\ UNCHANGED <<inbox, connections, connectionIdCounter, received, exitCode,
                   broadcasts>>

\* A callback that runs only when every socket is CLOSED.
ServerClosedWhenAllClosed ==
    /\ LoopIdle
    /\ server = "closing"
    /\ \A id \in Accepted : readyState[id] = "CLOSED"
    /\ server' = "exited"
    /\ exitCode' = 0
    /\ lastEvent' = Event("closed", 0, "", "none", NoPass)
    /\ UNCHANGED <<inbox, connections, connectionIdCounter, readyState, received,
                   broadcasts>>

\* The callback of wss.close: process.exit(0).
ServerClosed ==
    /\ LoopIdle
    /\ server = "closing"
    /\ server' = "exited"
    /\ exitCode' = 0
    /\ lastEvent' = Event("closed", 0, "", "none", NoPass)
    /\ UNCHANGED <<inbox, connections, connectionIdCounter, readyState, received,
                   broadcasts>>

\* A server error handler that logs and does not exit.
ServerErrorLogOnly ==
    /\ LoopIdle
    /\ server # "exited"
    /\ lastEvent' = Event("server error", 0, "", "none", NoPass)
    /\ UNCHANGED <<inbox, connections, connectionIdCounter, readyState, received,
                   server, exitCode, broadcasts>>

\* wss.on('error'): process.exit(1).
ServerError ==
    /\ LoopIdle
    /\ server # "exited"
    /\ server' = "exited"
    /\ exitCode' = 1
    /\ lastEvent' = Event("server error", 0, "", "none", NoPass)
    /\ UNCHANGED <<inbox, connections, connectionIdCounter, readyState, received,
                   broadcasts>>

\* The handler returns and the event loop waits for the next event.
Return ==
    /\ ~LoopIdle
    /\ server # "exited"
    /\ lastEvent' = IdleEvent
    /\ UNCHANGED <<inbox, connections, connectionIdCounter, readyState, received,
                   server, exitCode, broadcasts>>

\* The transport: the closing handshake of a socket starts (the peer sent a
\* close frame, or the connection broke).
TransportClosing(id) ==
    /\ LoopIdle
    /\ Running
    /\ id \in Accepted
    /\ readyState[id] = "OPEN"
    /\ readyState' = [readyState EXCEPT ![id] = "CLOSING"]
    /\ UNCHANGED <<inbox, connections, connectionIdCounter, received, server,
                   exitCode, broadcasts, lastEvent>>

\* The transport: the socket is gone.
TransportClosed(id) ==
    /\ LoopIdle
    /\ Running
    /\ id \in Accepted
    /\ readyState[id] # "CLOSED"
    /\ readyState' = [readyState EXCEPT ![id] = "CLOSED"]
    /\ UNCHANGED <<inbox, connections, connectionIdCounter, received, server,
                   exitCode, broadcasts, lastEvent>>

\* The sockets a send may throw on: those the pass will find OPEN.
MayThrow == {id \in MapKeys(connections) : readyState[id] = "OPEN"}

Next ==
    \/ Listening
    \/ Connection
    \/ \E connectionId \in Accepted, message \in Frames, throws \in SUBSET MayThrow :
         /\ LoopIdle
         /\ Outcome(message) = "broadcast" => broadcasts < MaxBroadcasts
         /\ OnMessage(connectionId, message, throws)
         /\ UNCHANGED inbox
    \/ \E connectionId \in Accepted : OnClose(connectionId)
    \/ \E connectionId \in Accepted : OnError(connectionId)
    \/ Sigint
    \/ ServerClosed
    \/ ServerError
    \/ Return
    \/ \E id \in Accepted : TransportClosing(id)
    \/ \E id \in Accepted : TransportClosed(id)

Spec == Init /\ [][Next]_vars

----------------------------------------------------------------------------
\* The order of the frames.  A socket hands its frames to the message
\* handler one at a time, in the order they arrived.  OrderSpec is the relay
\* with the frames of ArrivalOrder arriving in that order, each on any
\* socket, and handled from the inbox of its socket.

ArrivalOrder == <<FrameHello, FrameHi>>

\* The frames that have arrived so far, on whatever socket.
Arrived ==
    UNION {{inbox[id].arrived[i] : i \in 1..Len(inbox[id].arrived)} : id \in Accepted}

\* The next frame of ArrivalOrder arrives on the socket of connectionId.
Arrive(connectionId) ==
    /\ LoopIdle
    /\ Running
    /\ connectionId \in Accepted
    /\ readyState[connectionId] # "CLOSED"
    /\ Cardinality(Arrived) < Len(ArrivalOrder)
    /\ inbox' = [inbox EXCEPT ![connectionId].arrived =
                    Append(@, ArrivalOrder[Cardinality(Arrived) + 1])]
    /\ UNCHANGED <<connections, connectionIdCounter, readyState, received,
                   server, exitCode, broadcasts, lastEvent>>

\* A socket that hands over its newest frame first.
NextFrameNewestFirst(box) == box.arrived[Len(box.arrived) - box.handled]

\* The frame the next 'message' event of a socket carries: the oldest one
\* the handler has not run for.
NextFrame(box) == box.arrived[box.handled + 1]

\* The 'message' event of connectionId for the next frame of its inbox.
OnNextMessage(connectionId, throws) ==
    /\ connectionId \in Accepted
    /\ inbox[connectionId].handled < Len(inbox[connectionId].arrived)
    /\ OnMessage(connectionId, NextFrame(inbox[connectionId]), throws)
    /\ inbox' = [inbox EXCEPT ![connectionId].handled = @ + 1]

OrderNext ==
    \/ Listening
    \/ Connection
    \/ \E connectionId \in Accepted : Arrive(connectionId)
    \/ \E connectionId \in Accepted, throws \in SUBSET MayThrow :
         OnNextMessage(connectionId, throws)
    \/ \E connectionId \in Accepted : OnClose(connectionId)
    \/ \E connectionId \in Accepted : OnError(connectionId)
    \/ Sigint
    \/ ServerClosed
    \/ ServerError
    \/ Return
    \/ \E id \in Accepted : TransportClosing(id)
    \/ \E id \in Accepted : TransportClosed(id)

OrderSpec == Init /\ [][OrderNext]_vars

\* The closing handshake of a socket ends: the peer answers, or the timer ws
\* starts with the handshake destroys the socket.
HandshakeEnds(id) ==
    /\ id \in Accepted
    /\ readyState[id] = "CLOSING"
    /\ TransportClosed(id)

\* The scheduling of the event loop: a handler that has started returns, a
\* socket that is closing gets CLOSED, and the close event of a CLOSED socket
\* is delivered, however many other events are handled in between.
CallbackFairness ==
    /\ SF_vars(Return)
    /\ \A id \in 1..MaxConnections : SF_vars(HandshakeEnds(id))
    /\ \A id \in 1..MaxConnections : SF_vars(OnClose(id))

FairSpec == Init /\ [][Next]_vars /\ CallbackFairness

\* The scheduling of the shutdown: a handler that has started returns and
\* the callback given to wss.close is called.  Nothing is assumed of the
\* sockets: a peer may stay in its closing handshake forever.
ShutdownFairness ==
    /\ SF_vars(Return)
    /\ SF_vars(ServerClosed)

ShutdownSpec == Init /\ [][Next]_vars /\ ShutdownFairness

----------------------------------------------------------------------------
\* Properties.  They are stated on the turn that has just run: lastEvent
\* holds the state the handler started from, the variables hold the state it
\* left.

Keys == MapKeys(connections)

BeforeKeys == MapKeys(lastEvent.before)

\* The sendmessage frames and the data value each carries.
SendMessagePayload == (FrameHello :> "hello") @@ (FrameHi :> "hi")

\* The turn was the message handler run on a frame {action:'sendmessage', data:P}.
SendMessageTurn ==
    /\ lastEvent.op = "message"
    /\ lastEvent.frame \in DOMAIN SendMessagePayload

\* P of that frame.
P == SendMessagePayload[lastEvent.frame]

\* The handler changed nothing: Map, counter, sockets, frames delivered,
\* and the process is still running.
NothingChanged ==
    /\ connections = lastEvent.before
    /\ connectionIdCounter = lastEvent.counterBefore
    /\ readyState = lastEvent.stateBefore
    /\ received = lastEvent.receivedBefore
    /\ server = lastEvent.serverBefore
    /\ exitCode = -1

\* C1: every Accept increases the registry size by exactly one, leaves every
\* existing entry in place and adds an identifier that was not there; the
\* identifiers assigned are pairwise distinct, and after N accepts with no
\* close, error or pruning (every socket accepted is still OPEN) the
\* registry holds exactly N entries.
C1_AcceptAddsOne ==
    /\ \A i, j \in 1..Len(connections) : i # j => connections[i] # connections[j]
    /\ Cardinality(Accepted) = connectionIdCounter
    /\ (\A id \in Accepted : readyState[id] = "OPEN")
          => /\ MapSize(connections) = connectionIdCounter
             /\ Keys = Accepted
    /\ lastEvent.op = "connection"
          => /\ MapSize(connections) = Len(lastEvent.before) + 1
             /\ SubSeq(connections, 1, Len(lastEvent.before)) = lastEvent.before
             /\ connections[Len(connections)] = lastEvent.id
             /\ lastEvent.id \notin BeforeKeys
             /\ lastEvent.id \notin DOMAIN lastEvent.stateBefore

\* Three accepts in a row: the third finds the first two in place.
C1_Witness ==
    /\ lastEvent.op = "connection"
    /\ MapSize(connections) = 3
    /\ \A id \in Accepted : readyState[id] = "OPEN"

SenderRegisteredOpen ==
    /\ lastEvent.id \in BeforeKeys
    /\ lastEvent.stateBefore[lastEvent.id] = "OPEN"

\* Connection k has received exactly one more frame in the turn, the payload.
Delivered(k) == received[k] = Append(lastEvent.receivedBefore[k], P)

\* C3 as stated: a sender that is registered and open receives the payload
\* of its own sendmessage frame.
C3_SenderReceives ==
    (SendMessageTurn /\ SenderRegisteredOpen) => Delivered(lastEvent.id)

\* C3 amended: the pass makes no exception of the sender.  A sender that is
\* registered and open is visited by its own pass and receives the payload
\* of its own frame unless the send to it throws, exactly like every other
\* open peer: an open peer whose send fared the same got the same, and when
\* no send throws every open entry, the sender included, has the payload.
C3_NoSelfExclusion ==
    (SendMessageTurn /\ SenderRegisteredOpen)
        => /\ \E i \in 1..Len(lastEvent.visited) : lastEvent.visited[i] = lastEvent.id
           /\ lastEvent.id \in lastEvent.sent \cup lastEvent.failed
           /\ lastEvent.id \in lastEvent.sent <=> Delivered(lastEvent.id)
           /\ lastEvent.id \in lastEvent.failed
                <=> received[lastEvent.id] = lastEvent.receivedBefore[lastEvent.id]
           /\ \A k \in BeforeKeys :
                 (/\ lastEvent.stateBefore[k] = "OPEN"
                  /\ k \in lastEvent.failed <=> lastEvent.id \in lastEvent.failed)
                     => (Delivered(k) <=> Delivered(lastEvent.id))
           /\ lastEvent.failed = {}
                => \A k \in BeforeKeys :
                      lastEvent.stateBefore[k] = "OPEN" => Delivered(k)

\* Connection 2 of three sends, and receives its own frame with the others.
C3_Witness ==
    /\ SendMessageTurn
    /\ lastEvent.id = 2
    /\ lastEvent.sent = {1, 2, 3}
    /\ received[2] = <<"hello">>
    /\ lastEvent.successCount = 3
    /\ lastEvent.failCount = 0

\* C4: every registered connection whose socket is not OPEN when a broadcast
\* pass visits it is absent from the registry when the pass ends, and has
\* received no frame from the pass.
C4_DeadPeerPruned ==
    SendMessageTurn =>
        \A k \in BeforeKeys :
            lastEvent.stateBefore[k] # "OPEN"
                => /\ k \notin Keys
                   /\ received[k] = lastEvent.receivedBefore[k]

\* Connection 3 is registered and no longer open when connection 2 sends:
\* 1 and 2 receive the frame, 3 is removed.
C4_Witness ==
    /\ SendMessageTurn
    /\ lastEvent.id = 2
    /\ BeforeKeys = {1, 2, 3}
    /\ lastEvent.stateBefore[3] # "OPEN"
    /\ lastEvent.sent = {1, 2}
    /\ lastEvent.pruned = {3}
    /\ Keys = {1, 2}
    /\ lastEvent.successCount = 2
    /\ lastEvent.failCount = 1

\* The frames that are not valid JSON, or are a JSON object without action
\* or without data.
MalformedFrames == {FrameNotJson, FrameNoAction, FrameNoData, FramePing}

\* C5: a frame that is not valid JSON, or a JSON object missing action or
\* data, leaves the registry as it was (the sender included, which is neither
\* closed nor deregistered), delivers no frame to any connection and does not
\* end the process.
C5_MalformedIsNoOp ==
    (lastEvent.op = "message" /\ lastEvent.frame \in MalformedFrames)
        => NothingChanged

\* A registered connection among three sends a frame that is not JSON.
C5_Witness ==
    /\ lastEvent.op = "message"
    /\ lastEvent.frame = FrameNotJson
    /\ lastEvent.id \in Keys
    /\ MapSize(connections) = 3
    /\ server = "listening"

\* The frames that parse and whose action is not 'sendmessage'.
UnrecognizedActionFrames == {FrameUnknown, FramePing}

\* C6: an envelope that parses and whose action is not 'sendmessage' leaves
\* the registry unchanged and delivers no frame to any connection, also when
\* some registered sockets are no longer open (they are not pruned).
C6_UnrecognizedActionIsNoOp ==
    (lastEvent.op = "message" /\ lastEvent.frame \in UnrecognizedActionFrames)
        => NothingChanged

\* An 'unknown' action with data arrives while a registered socket is no
\* longer open: the stale entry stays.
C6_Witness ==
    /\ lastEvent.op = "message"
    /\ lastEvent.frame = FrameUnknown
    /\ MapSize(connections) = 3
    /\ \E k \in Keys : readyState[k] # "OPEN"
    /\ \E k \in Keys : readyState[k] = "OPEN"

\* The close handler ran for a connection that was in the registry.
CloseOfRegistered ==
    /\ lastEvent.op = "close"
    /\ lastEvent.id \in BeforeKeys

\* The other entries of the registry the close handler started from.
Others == BeforeKeys \ {lastEvent.id}

\* The close handler removed exactly its own connection and touched nothing
\* else: the other entries, their order, their sockets, the frames delivered.
ExactlyOneRemoved ==
    /\ Keys = Others
    /\ MapSize(connections) = Len(lastEvent.before) - 1
    /\ \A i, j \in 1..Len(lastEvent.before) :
          (i < j /\ lastEvent.before[i] # lastEvent.id /\ lastEvent.before[j] # lastEvent.id)
              => \E a, b \in 1..Len(connections) :
                    /\ a < b
                    /\ connections[a] = lastEvent.before[i]
                    /\ connections[b] = lastEvent.before[j]
    /\ readyState = lastEvent.stateBefore
    /\ received = lastEvent.receivedBefore
    /\ connectionIdCounter = lastEvent.counterBefore

\* The connections whose message handler can still run.
Senders == {id \in Accepted : readyState[id] # "CLOSED"}

\* The pass a sendmessage frame would run in the state the close handler
\* started from.
PassBeforeClose(sender, throws) ==
    ForEach(lastEvent.before,
            PassStart(lastEvent.before, lastEvent.receivedBefore),
            sender, "hello", throws)

\* C7 as stated: the close event of a registered connection c removes
\* exactly c, leaves the other entries untouched, and a later sendmessage
\* broadcast (whoever sends it, whichever sends throw) delivers its payload
\* to each of the others that is open.
C7_CloseThenAllOpenReceive ==
    CloseOfRegistered =>
        /\ ExactlyOneRemoved
        /\ \A sender \in Senders, throws \in SUBSET MayThrow :
              \A k \in Others :
                 readyState[k] = "OPEN"
                    => Broadcast(sender, "hello", throws).received[k]
                          = Append(received[k], "hello")

\* C7 amended: the close event of a registered connection c removes exactly
\* c and leaves the other entries untouched, and a later sendmessage
\* broadcast still delivers its payload to each of the others that is open
\* and whose send does not throw; whoever sends and whichever sends throw,
\* the pass gives each of the others what it would have given it had c not
\* closed.
C7_CloseRemovesExactlyOne ==
    CloseOfRegistered =>
        /\ ExactlyOneRemoved
        /\ \A sender \in Senders, throws \in SUBSET MayThrow :
              \A k \in Others :
                 /\ Broadcast(sender, "hello", throws).received[k]
                       = PassBeforeClose(sender, throws).received[k]
                 /\ MapHas(Broadcast(sender, "hello", throws).connections, k)
                       = MapHas(PassBeforeClose(sender, throws).connections, k)
                 /\ (readyState[k] = "OPEN" /\ k \notin throws)
                       => Broadcast(sender, "hello", throws).received[k]
                             = Append(received[k], "hello")

\* Connection 2 of three closes; 1 and 3 stay, open.
C7_Witness ==
    /\ CloseOfRegistered
    /\ lastEvent.id = 2
    /\ BeforeKeys = {1, 2, 3}
    /\ Keys = {1, 3}
    /\ readyState[1] = "OPEN"
    /\ readyState[3] = "OPEN"

\* C8: the close handler run for an identifier that is already absent from
\* the registry (removed by an earlier close, by the error handler or by a
\* broadcast pass) raises no error and leaves the registry, its size and the
\* identifier counter unchanged.
C8_CloseOfAbsentIsNoOp ==
    (lastEvent.op = "close" /\ lastEvent.id \notin BeforeKeys)
        => /\ NothingChanged
           /\ MapSize(connections) = Len(lastEvent.before)

\* The close handler runs for connection 1, already removed, while 2 and 3
\* are registered.
C8_Witness ==
    /\ lastEvent.op = "close"
    /\ lastEvent.id = 1
    /\ BeforeKeys = {2, 3}
    /\ Keys = {2, 3}

\* C9: identifiers are the integers 1, 2, 3, ... in the order of the
\* accepts: the k-th accepted connection gets k, and an identifier is never
\* assigned to a second connection, also when its entry was removed.
C9_IdentifiersMonotonic ==
    /\ Accepted = 1..connectionIdCounter
    /\ Keys \subseteq Accepted
    /\ \A i \in 1..(Len(connections) - 1) : connections[i] < connections[i + 1]
    /\ lastEvent.op = "connection"
          => /\ lastEvent.id = Cardinality(DOMAIN lastEvent.stateBefore) + 1
             /\ lastEvent.id = connectionIdCounter
             /\ connectionIdCounter = lastEvent.counterBefore + 1
             /\ \A earlier \in DOMAIN lastEvent.stateBefore : earlier < lastEvent.id

\* The third accept comes after connection 1 was removed: it gets 3, not 1.
C9_Witness ==
    /\ lastEvent.op = "connection"
    /\ lastEvent.id = 3
    /\ BeforeKeys = {2}
    /\ Keys = {2, 3}

\* C10: when a send to a socket that reported OPEN throws during a pass,
\* the failure counter is incremented (it counts the sends that threw and
\* the entries pruned) and that connection is still in the registry when
\* the pass ends; an entry leaves the registry only in its own close or
\* error handler, or in a pass that finds its socket not open.
C10_ThrownSendKeepsEntry ==
    /\ SendMessageTurn =>
          /\ \A k \in lastEvent.failed :
                /\ k \in BeforeKeys
                /\ lastEvent.stateBefore[k] = "OPEN"
                /\ k \in Keys
                /\ received[k] = lastEvent.receivedBefore[k]
          /\ lastEvent.failCount
                = Cardinality(lastEvent.failed) + Cardinality(lastEvent.pruned)
          /\ lastEvent.failed \cap lastEvent.pruned = {}
    /\ \A k \in BeforeKeys \ Keys :
          \/ lastEvent.op \in {"close", "error"} /\ lastEvent.id = k
          \/ lastEvent.op = "message" /\ lastEvent.stateBefore[k] # "OPEN"

\* A pass over three entries: the send to 1 throws, 2 receives, 3 is pruned;
\* 1 is still registered.
C10_Witness ==
    /\ SendMessageTurn
    /\ lastEvent.failed = {1}
    /\ lastEvent.sent = {2}
    /\ lastEvent.pruned = {3}
    /\ lastEvent.failCount = 2
    /\ Keys = {1, 2}

\* The registry the pass started from, without the entries whose socket was
\* not OPEN.
OpenEntriesBefore ==
    SelectSeq(lastEvent.before, LAMBDA x : lastEvent.stateBefore[x] = "OPEN")

\* C11 as stated: after a pass, a connection whose send failed is no longer
\* in the registry.
C11_FailedSendDeregisters ==
    SendMessageTurn => \A k \in lastEvent.failed : k \notin Keys

\* C11 amended: a send failure during a pass does not deregister the peer.
\* After the pass the connection whose send failed is still in the registry,
\* at its place; the pass removes exactly the entries whose socket was not
\* OPEN, so the registry it leaves is the open entries it started from.
C11_FailedSendStaysRegistered ==
    SendMessageTurn =>
        /\ \A k \in lastEvent.failed : k \in Keys
        /\ Keys = BeforeKeys \ lastEvent.pruned
        /\ connections = OpenEntriesBefore

\* The send to connection 2 of three throws: all three are still registered.
C11_Witness ==
    /\ SendMessageTurn
    /\ lastEvent.before = <<1, 2, 3>>
    /\ lastEvent.failed = {2}
    /\ lastEvent.sent = {1, 3}
    /\ connections = <<1, 2, 3>>

\* The handler reported nothing to anyone and the process goes on: every
\* socket has the frames it had, or those and the payload, and the server
\* is as it was.
NoReportNoExit ==
    /\ \A k \in DOMAIN received :
          \/ received[k] = lastEvent.receivedBefore[k]
          \/ Delivered(k)
    /\ server = lastEvent.serverBefore
    /\ exitCode = -1

\* The entries the pass visited.
Visited == {lastEvent.visited[i] : i \in 1..Len(lastEvent.visited)}

\* C12 as stated: when the send to a peer fails, every other registered
\* connection that is open receives the payload in that pass, the sender is
\* told nothing and the process goes on.
C12_AllOthersReceive ==
    SendMessageTurn =>
        \A c \in lastEvent.failed :
            /\ \A k \in BeforeKeys \ {c} :
                  lastEvent.stateBefore[k] = "OPEN" => Delivered(k)
            /\ NoReportNoExit

\* C12 amended: a send failure for one peer never aborts the pass.  Wherever
\* the failing peer stands in the iteration, every entry is still visited
\* and every other registered connection that is open and whose own send
\* does not throw receives the payload in that pass; the sender is told
\* nothing and the process goes on.
C12_FailureDoesNotAbort ==
    SendMessageTurn =>
        \A c \in lastEvent.failed :
            /\ Visited = BeforeKeys
            /\ \A k \in BeforeKeys \ {c} :
                  (lastEvent.stateBefore[k] = "OPEN" /\ k \notin lastEvent.failed)
                      => Delivered(k)
            /\ NoReportNoExit

\* The first entry of three fails: the two after it receive the payload.
C12_Witness ==
    /\ SendMessageTurn
    /\ lastEvent.before = <<1, 2, 3>>
    /\ lastEvent.failed = {1}
    /\ received[1] = <<>>
    /\ received[2] = <<"hello">>
    /\ received[3] = <<"hello">>
    /\ server = "listening"

\* The handler of the turn touched nothing but the registry.
OnlyRegistryTouched ==
    /\ readyState = lastEvent.stateBefore
    /\ received = lastEvent.receivedBefore
    /\ connectionIdCounter = lastEvent.counterBefore
    /\ server = lastEvent.serverBefore
    /\ exitCode = -1

\* C13: the error handler performs the removal of the close handler.  From
\* every registry, with c in it or not, the error event of c and the close
\* event of c leave the same registry: c absent, every other entry in place
\* and in order, nothing else changed; and a close event after the error
\* finds c absent and changes nothing.
C13_ErrorRemovesLikeClose ==
    lastEvent.op \in {"error", "close"} =>
        /\ lastEvent.id \notin Keys
        /\ Keys = BeforeKeys \ {lastEvent.id}
        /\ connections = SelectSeq(lastEvent.before, LAMBDA x : x # lastEvent.id)
        /\ OnlyRegistryTouched
        /\ MapDelete(connections, lastEvent.id) = connections

\* The socket of connection 2 of three reports an error: 2 is removed, 1
\* and 3 stay.
C13_Witness ==
    /\ lastEvent.op = "error"
    /\ lastEvent.id = 2
    /\ lastEvent.before = <<1, 2, 3>>
    /\ connections = <<1, 3>>

\* C14: the SIGINT handler requests a close of every socket that is in the
\* registry at that moment (an OPEN one starts closing, the others and the
\* sockets outside the registry are left as they are) and removes no entry
\* itself; the server stops accepting only with those closes requested, so
\* no registered socket is OPEN while the server is closing; and once the
\* handler has run no connection is accepted or added to the registry.
C14_ShutdownClosesAllThenHalts ==
    /\ lastEvent.op = "SIGINT" =>
          /\ \A k \in BeforeKeys :
                readyState[k] = IF lastEvent.stateBefore[k] = "OPEN"
                                THEN "CLOSING" ELSE lastEvent.stateBefore[k]
          /\ \A k \in Accepted \ BeforeKeys : readyState[k] = lastEvent.stateBefore[k]
          /\ connections = lastEvent.before
          /\ server = "closing"
    /\ server = "closing" => \A k \in Keys : readyState[k] # "OPEN"
    /\ lastEvent.op = "connection" => lastEvent.serverBefore = "listening"
    /\ (lastEvent.op # "idle" /\ lastEvent.serverBefore = "closing")
          => /\ connectionIdCounter = lastEvent.counterBefore
             /\ Accepted = DOMAIN lastEvent.stateBefore
             /\ Keys \subseteq BeforeKeys

\* SIGINT arrives with two open connections registered and room for a
\* third: both sockets are closing and the server accepts no more.
C14_Witness ==
    /\ lastEvent.op = "SIGINT"
    /\ lastEvent.before = <<1, 2>>
    /\ lastEvent.stateBefore[1] = "OPEN"
    /\ lastEvent.stateBefore[2] = "OPEN"
    /\ readyState[1] = "CLOSING"
    /\ readyState[2] = "CLOSING"
    /\ connectionIdCounter < MaxConnections
    /\ server = "closing"

\* C15: the server error event ends the process with exit status 1, a
\* non-zero status, whether the server was still binding or already
\* listening; after that exit no handler runs: the last turn is the server
\* error turn and the registry, the counter, the sockets and the frames
\* delivered are as that turn found them.
C15_ServerErrorIsFatal ==
    /\ lastEvent.op = "server error" =>
          /\ server = "exited"
          /\ exitCode = 1
          /\ exitCode # 0
    /\ exitCode = 1 =>
          /\ lastEvent.op = "server error"
          /\ server = "exited"
          /\ connections = lastEvent.before
          /\ connectionIdCounter = lastEvent.counterBefore
          /\ readyState = lastEvent.stateBefore
          /\ received = lastEvent.receivedBefore

\* The bind fails: the server error event comes before 'listening'.
C15_Witness ==
    /\ lastEvent.op = "server error"
    /\ lastEvent.serverBefore = "starting"
    /\ server = "exited"
    /\ exitCode = 1
    /\ connectionIdCounter = 0

\* C16: no cross-peer error propagation.  A turn of a message, close or
\* error handler (a malformed frame, a pass with sends that throw, the
\* close or the error of a connection) leaves every connection whose socket
\* is OPEN in the registry, changes nothing at all when the frame is not a
\* broadcast, and leaves the process running; the process ends with a
\* non-zero status only in the server error turn, and otherwise only with
\* status 0 in the callback of the shutdown.
C16_NoCrossPeerPropagation ==
    /\ lastEvent.op \in {"message", "close", "error"} =>
          /\ \A k \in BeforeKeys : lastEvent.stateBefore[k] = "OPEN" => k \in Keys
          /\ OpenEntriesBefore
                = SelectSeq(connections, LAMBDA x : lastEvent.stateBefore[x] = "OPEN")
          /\ server = lastEvent.serverBefore
          /\ exitCode = -1
    /\ (lastEvent.op = "message" /\ lastEvent.outcome # "broadcast") => NothingChanged
    /\ server = "exited" <=> exitCode # -1
    /\ exitCode \notin {-1, 0} => lastEvent.op = "server error"
    /\ exitCode = 0 => (lastEvent.op = "closed" /\ lastEvent.serverBefore = "closing")

\* The socket of connection 1 reports an error while 2 and 3 are open: 2
\* and 3 stay registered and the server goes on listening.
C16_Witness ==
    /\ lastEvent.op = "error"
    /\ lastEvent.id = 1
    /\ lastEvent.before = <<1, 2, 3>>
    /\ readyState[2] = "OPEN"
    /\ readyState[3] = "OPEN"
    /\ connections = <<2, 3>>
    /\ server = "listening"
    /\ exitCode = -1

\* The frames that parse as JSON with action 'sendmessage' and a data field
\* that is a string, and the value of that field.
DataOf == SendMessagePayload @@ (FrameEmptyData :> "")

\* The pass of the turn was Broadcast(data): it went over the whole registry
\* and every socket it sent to without error has one more frame, data.
BroadcastOf(data) ==
    /\ lastEvent.outcome = "broadcast"
    /\ Visited = BeforeKeys
    /\ \A k \in lastEvent.sent :
          received[k] = Append(lastEvent.receivedBefore[k], data)

\* C17 as stated: for every frame that parses as JSON with action
\* 'sendmessage' and a data field, the handler performs Broadcast(data) with
\* that value, for every string value of data, the empty string included.
C17_BroadcastForEveryData ==
    (lastEvent.op = "message" /\ lastEvent.frame \in DOMAIN DataOf)
        => BroadcastOf(DataOf[lastEvent.frame])

\* C17 amended: the handler performs Broadcast(data) with that value for
\* every non-empty string value of data; a frame whose data is the empty
\* string is logged as a warning and nothing is broadcast.
C17_BroadcastForNonEmptyData ==
    (lastEvent.op = "message" /\ lastEvent.frame \in DOMAIN DataOf)
        => IF DataOf[lastEvent.frame] # ""
           THEN BroadcastOf(DataOf[lastEvent.frame])
           ELSE /\ lastEvent.outcome = "warning"
                /\ NothingChanged

\* A registered, open connection among three open ones sends a sendmessage
\* frame whose data is the empty string: no socket is sent anything.
C17_Witness ==
    /\ lastEvent.op = "message"
    /\ lastEvent.frame = FrameEmptyData
    /\ lastEvent.id = 2
    /\ lastEvent.before = <<1, 2, 3>>
    /\ \A k \in Keys : readyState[k] = "OPEN"
    /\ \A k \in Keys : received[k] = <<>>

\* C18: deregistered is terminal.  An identifier that has been assigned and
\* is not in the registry (it was removed by the close handler, the error
\* handler or the pruning of a pass) is not in the registry after any step,
\* whatever the step: an accept, a message, a close, an error, a broadcast.
C18_DeregisteredIsTerminal ==
    [][\A id \in Accepted : id \notin Keys => id \notin MapKeys(connections')]_vars

\* Connection 1 was removed while its socket was closing and then sends a
\* sendmessage frame: 2 and 3 receive it and 1 is not put back.
C18_Witness ==
    /\ SendMessageTurn
    /\ lastEvent.id = 1
    /\ lastEvent.before = <<2, 3>>
    /\ lastEvent.sent = {2, 3}
    /\ readyState[1] = "CLOSING"
    /\ connections = <<2, 3>>

\* The entries of the registry the pass started from whose socket was not OPEN.
NotOpenBefore == {k \in BeforeKeys : lastEvent.stateBefore[k] # "OPEN"}

\* C19: the summary of a pass.  The success count is the number of
\* connections the payload was sent to without error (those that have it),
\* the failure count is the number of not-open connections pruned plus the
\* number of sends that threw, and the two add up to the size of the
\* registry at the start of the pass; when no send throws the counts are
\* the open and the not-open entries (3 open: 3 and 0; 2 open and 1 closed:
\* 2 and 1).
C19_SummaryCounts ==
    SendMessageTurn =>
        /\ lastEvent.successCount = Cardinality({k \in BeforeKeys : Delivered(k)})
        /\ lastEvent.successCount = Cardinality(lastEvent.sent)
        /\ lastEvent.pruned = NotOpenBefore
        /\ lastEvent.pruned = BeforeKeys \ Keys
        /\ lastEvent.failCount
              = Cardinality(NotOpenBefore) + Cardinality(lastEvent.failed)
        /\ lastEvent.successCount + lastEvent.failCount = Len(lastEvent.before)
        /\ lastEvent.failed = {}
              => /\ lastEvent.successCount = Len(OpenEntriesBefore)
                 /\ lastEvent.failCount = Cardinality(NotOpenBefore)

\* Connection 2 sends while the socket of 3 is closed and still registered:
\* the log shows success 2, failure 1.
C19_Witness ==
    /\ SendMessageTurn
    /\ lastEvent.id = 2
    /\ lastEvent.before = <<1, 2, 3>>
    /\ lastEvent.stateBefore[3] = "CLOSED"
    /\ lastEvent.failed = {}
    /\ received[1] = <<"hello">>
    /\ received[2] = <<"hello">>
    /\ received[3] = <<>>
    /\ lastEvent.successCount = 2
    /\ lastEvent.failCount = 1

\* C20: at most one delivery attempt per peer per broadcast call.  A pass
\* visits every entry of the registry exactly once, in the order of the
\* registry; no socket gets more than one frame from it and a socket whose
\* send threw gets none (the send is not tried again in the pass); no turn
\* other than a pass delivers a frame (it is not tried again later), so a
\* socket never has more frames than there were passes.
C20_AtMostOneAttempt ==
    /\ SendMessageTurn =>
          /\ lastEvent.visited = lastEvent.before
          /\ \A i, j \in 1..Len(lastEvent.visited) :
                i # j => lastEvent.visited[i] # lastEvent.visited[j]
          /\ \A k \in DOMAIN received :
                Len(received[k]) <= Len(lastEvent.receivedBefore[k]) + 1
          /\ \A k \in lastEvent.failed \cup (Accepted \ BeforeKeys) :
                received[k] = lastEvent.receivedBefore[k]
    /\ (lastEvent.op # "idle" /\ lastEvent.outcome # "broadcast")
          => \A k \in DOMAIN lastEvent.receivedBefore :
                received[k] = lastEvent.receivedBefore[k]
    /\ \A k \in Accepted : Len(received[k]) <= broadcasts

\* A pass over three open entries in which the sends to 1 and 3 throw: each
\* entry was visited once, 2 has one frame, 1 and 3 have none.
C20_Witness ==
    /\ SendMessageTurn
    /\ lastEvent.visited = <<1, 2, 3>>
    /\ lastEvent.failed = {1, 3}
    /\ received[1] = <<>>
    /\ received[2] = <<"hello">>
    /\ received[3] = <<>>
    /\ broadcasts = 1

\* Connection id is in the registry and its socket is not OPEN.
Stale(id) ==
    /\ id \in Keys
    /\ readyState[id] # "OPEN"

\* C21: stale entries are transient.  With the close callback of every
\* socket delivered, a registered connection whose socket has stopped being
\* OPEN is eventually out of the registry (its close or error handler or a
\* pass removes it), as long as the process runs; it does not stay forever.
C21_StaleEventuallyRemoved ==
    \A id \in 1..MaxConnections :
        Stale(id) ~> (id \notin Keys \/ server = "exited")

\* The close handler removes connection 3, which was registered with a
\* CLOSED socket, while the server runs.
C21_Witness ==
    /\ lastEvent.op = "close"
    /\ lastEvent.id = 3
    /\ lastEvent.before = <<1, 2, 3>>
    /\ lastEvent.stateBefore[3] = "CLOSED"
    /\ connections = <<1, 2>>
    /\ server = "listening"

Has(seq, x) == \E i \in 1..Len(seq) : seq[i] = x

\* The place of the first x in seq.
PositionIn(seq, x) == CHOOSE i \in 1..Len(seq) : seq[i] = x /\ \A j \in 1..(i - 1) : seq[j] # x

\* C23: intra-peer ordering.  The message handler runs for the frames of a
\* connection in the order they arrived, so when a connection sends P1 and
\* then P2, no socket is ever sent P2 before P1: a recipient that got both
\* payloads (it was registered and open in both passes) got P1 first, and
\* the second pass appended P2 behind everything its recipients had.
C23_IntraPeerOrder ==
    /\ \A c \in Accepted :
          \A i, j \in 1..Len(inbox[c].arrived) :
             i < j =>
                \A k \in Accepted :
                   (/\ Has(received[k], DataOf[inbox[c].arrived[i]])
                    /\ Has(received[k], DataOf[inbox[c].arrived[j]]))
                       => PositionIn(received[k], DataOf[inbox[c].arrived[i]])
                            < PositionIn(received[k], DataOf[inbox[c].arrived[j]])
    /\ \A c \in Accepted :
          /\ inbox[c].handled <= Len(inbox[c].arrived)
          /\ \A k \in Accepted, j \in 1..Len(inbox[c].arrived) :
                Has(received[k], DataOf[inbox[c].arrived[j]]) => j <= inbox[c].handled
    /\ lastEvent.op = "message" =>
          /\ inbox[lastEvent.id].handled >= 1
          /\ lastEvent.frame = inbox[lastEvent.id].arrived[inbox[lastEvent.id].handled]
    /\ SendMessageTurn =>
          \A k \in lastEvent.sent :
             received[k] = Append(lastEvent.receivedBefore[k], P)

\* Connection 1 has sent hello and then hi: the three open connections
\* have received hello and then hi.
C23_Witness ==
    /\ SendMessageTurn
    /\ lastEvent.id = 1
    /\ inbox[1].arrived = <<FrameHello, FrameHi>>
    /\ inbox[1].handled = 2
    /\ connections = <<1, 2, 3>>
    /\ \A k \in Keys : received[k] = <<"hello", "hi">>

\* C24: a pass runs to completion.  Nothing else runs between its first and
\* its last step: no connection is accepted, no socket handler or shutdown
\* changes the counter, the sockets or the server.  The pass visits exactly
\* the registry it started from, each entry once and in order, every entry
\* takes one of the three branches, and the registry it leaves is the one
\* it started from without the entries it found not open; deleting the
\* entry being visited makes it neither skip nor revisit another.
C24_PassRunsToCompletion ==
    SendMessageTurn =>
        /\ connectionIdCounter = lastEvent.counterBefore
        /\ Accepted = DOMAIN lastEvent.stateBefore
        /\ readyState = lastEvent.stateBefore
        /\ server = lastEvent.serverBefore
        /\ Len(lastEvent.visited) = Len(lastEvent.before)
        /\ \A i \in 1..Len(lastEvent.before) : lastEvent.visited[i] = lastEvent.before[i]
        /\ lastEvent.sent \cup lastEvent.failed \cup lastEvent.pruned = BeforeKeys
        /\ lastEvent.sent \cap lastEvent.failed = {}
        /\ lastEvent.sent \cap lastEvent.pruned = {}
        /\ lastEvent.pruned = NotOpenBefore
        /\ Keys = BeforeKeys \ NotOpenBefore
        /\ \A i, j \in 1..Len(connections) :
              i < j => \E a, b \in 1..Len(lastEvent.before) :
                          /\ a < b
                          /\ lastEvent.before[a] = connections[i]
                          /\ lastEvent.before[b] = connections[j]

\* The first entry of three is not open and is deleted while it is
\* visited: the pass goes on to the second and the third.
C24_Witness ==
    /\ SendMessageTurn
    /\ lastEvent.before = <<1, 2, 3>>
    /\ lastEvent.stateBefore[1] # "OPEN"
    /\ lastEvent.visited = <<1, 2, 3>>
    /\ lastEvent.pruned = {1}
    /\ lastEvent.sent = {2, 3}
    /\ connections = <<2, 3>>

\* C25: in every reachable state the identifier counter is non-negative and
\* is the number of connections accepted so far, no handler decreases it,
\* every key of the registry lies in 1..counter and the registry has at
\* most counter entries.
C25_CounterBoundsRegistry ==
    /\ connectionIdCounter >= 0
    /\ connectionIdCounter = Cardinality(Accepted)
    /\ lastEvent.op # "idle" => connectionIdCounter >= lastEvent.counterBefore
    /\ \A k \in Keys : 1 <= k /\ k <= connectionIdCounter
    /\ MapSize(connections) <= connectionIdCounter
    /\ Cardinality(Keys) = MapSize(connections)

\* Three connections were accepted and two of them are gone: the counter
\* is 3 and the registry holds connection 3 alone.
C25_Witness ==
    /\ connectionIdCounter = 3
    /\ connections = <<3>>
    /\ lastEvent.op = "close"
    /\ lastEvent.counterBefore = 3

\* C26: a pass never inserts.  The registry after a pass is a subset of the
\* registry before it, in the same order, and the identifier counter is
\* unchanged; when every registered socket is open and every send succeeds
\* the registry after the pass is the registry before it.
C26_PassNeverInserts ==
    SendMessageTurn =>
        /\ Keys \subseteq BeforeKeys
        /\ MapSize(connections) <= Len(lastEvent.before)
        /\ connections = SelectSeq(lastEvent.before, LAMBDA x : x \in Keys)
        /\ connectionIdCounter = lastEvent.counterBefore
        /\ (NotOpenBefore = {} /\ lastEvent.failed = {})
              => connections = lastEvent.before

\* Connection 3, removed while its socket was closing, sends a frame: the
\* pass over 1 and 2, both open, leaves the registry as it was.
C26_Witness ==
    /\ SendMessageTurn
    /\ lastEvent.id = 3
    /\ lastEvent.before = <<1, 2>>
    /\ lastEvent.sent = {1, 2}
    /\ lastEvent.failed = {}
    /\ connections = <<1, 2>>
    /\ connectionIdCounter = 3

\* The turn was the message handler run on a sendmessage frame from a
\* connection that was not in the registry.
DeregisteredSenderTurn ==
    /\ SendMessageTurn
    /\ lastEvent.id \notin BeforeKeys

\* The handler ran its pass over the whole registry and did not register
\* or serve the sender.
PassWithoutSender ==
    /\ lastEvent.outcome = "broadcast"
    /\ lastEvent.visited = lastEvent.before
    /\ lastEvent.id \notin Keys
    /\ received[lastEvent.id] = lastEvent.receivedBefore[lastEvent.id]

\* C27 as stated: a sendmessage frame from a connection that is no longer
\* in the registry still runs a full pass over the registry, the open peers
\* receive the payload, the sender is not put back and receives no frame.
C27_DeregisteredSenderReachesAllOpen ==
    DeregisteredSenderTurn =>
        /\ PassWithoutSender
        /\ \A k \in BeforeKeys : lastEvent.stateBefore[k] = "OPEN" => Delivered(k)

\* C27 amended: the message handler stays bound after its connection is
\* deregistered.  A sendmessage frame from a connection that is no longer
\* in the registry still runs a full pass over the registry, the open peers
\* whose send does not throw receive the payload, the sender is not put
\* back and receives no frame.
C27_HandlerStaysBound ==
    DeregisteredSenderTurn =>
        /\ PassWithoutSender
        /\ \A k \in BeforeKeys :
              (lastEvent.stateBefore[k] = "OPEN" /\ k \notin lastEvent.failed)
                  => Delivered(k)
        /\ \A k \in lastEvent.failed : received[k] = lastEvent.receivedBefore[k]

\* Connection 2 was removed by its error handler and its socket is still
\* closing when it sends: 1 and 3 receive hello, 2 does not and stays out.
C27_Witness ==
    /\ DeregisteredSenderTurn
    /\ lastEvent.id = 2
    /\ readyState[2] = "CLOSING"
    /\ lastEvent.before = <<1, 3>>
    /\ received[1] = <<"hello">>
    /\ received[3] = <<"hello">>
    /\ received[2] = <<>>
    /\ connections = <<1, 3>>

\* C28: only OPEN counts as open.  A registered connection whose socket is
\* closing or closed when a pass visits it is pruned by that pass, no send
\* to it is attempted and it gets no frame; a pass that runs after the
\* shutdown has requested the closes delivers nothing to anyone and empties
\* the registry; and the close event of a connection a pass has pruned
\* finds it absent and changes nothing.
C28_OnlyOpenCounts ==
    /\ SendMessageTurn =>
          \A k \in BeforeKeys :
             lastEvent.stateBefore[k] \in {"CLOSING", "CLOSED"}
                => /\ k \in lastEvent.pruned
                   /\ k \notin lastEvent.sent \cup lastEvent.failed
                   /\ k \notin Keys
                   /\ received[k] = lastEvent.receivedBefore[k]
    /\ (SendMessageTurn /\ lastEvent.serverBefore = "closing") =>
          /\ lastEvent.sent = {}
          /\ lastEvent.successCount = 0
          /\ received = lastEvent.receivedBefore
          /\ connections = <<>>
    /\ (lastEvent.op = "close" /\ lastEvent.id \notin BeforeKeys /\ server = "closing")
          => NothingChanged

\* After SIGINT the sockets of the three registered connections are
\* closing; connection 1 sends a frame and the pass prunes all three.
C28_Witness ==
    /\ SendMessageTurn
    /\ lastEvent.serverBefore = "closing"
    /\ lastEvent.id = 1
    /\ lastEvent.before = <<1, 2, 3>>
    /\ \A k \in BeforeKeys : lastEvent.stateBefore[k] = "CLOSING"
    /\ lastEvent.pruned = {1, 2, 3}
    /\ lastEvent.failCount = 3
    /\ connections = <<>>
    /\ \A k \in Accepted : received[k] = <<>>

\* The data values of the sendmessage frames the clients send.
Payloads == {SendMessagePayload[f] : f \in DOMAIN SendMessagePayload}

\* C29: no spurious or stray frames.  A socket is sent a frame only in the
\* turn of the message handler for a sendmessage frame, and then one frame,
\* the data value of that frame, and only if its connection was in the
\* registry with an OPEN socket when the pass started; a connection that is
\* not in the registry is sent nothing; all the recipients of a pass get
\* the same payload; so every frame ever delivered is the data value of a
\* sendmessage frame handled before.
C29_NoStrayFrames ==
    /\ lastEvent.op # "idle" =>
          \A k \in DOMAIN lastEvent.receivedBefore :
             received[k] # lastEvent.receivedBefore[k]
                => /\ SendMessageTurn
                   /\ k \in BeforeKeys
                   /\ lastEvent.stateBefore[k] = "OPEN"
                   /\ k \in lastEvent.sent
                   /\ received[k] = Append(lastEvent.receivedBefore[k], P)
    /\ lastEvent.op = "connection" => received[lastEvent.id] = <<>>
    /\ SendMessageTurn =>
          \A k1, k2 \in lastEvent.sent :
             received[k1][Len(received[k1])] = received[k2][Len(received[k2])]
    /\ \A k \in Accepted :
          /\ \A i \in 1..Len(received[k]) : received[k][i] \in Payloads
          /\ Len(received[k]) <= broadcasts

\* Connection 2 is closed and out of the registry when connection 1 sends:
\* 1 and 3 receive hello, 2 receives nothing.
C29_Witness ==
    /\ SendMessageTurn
    /\ lastEvent.id = 1
    /\ lastEvent.before = <<1, 3>>
    /\ readyState[2] = "CLOSED"
    /\ lastEvent.sent = {1, 3}
    /\ received[1] = <<"hello">>
    /\ received[3] = <<"hello">>
    /\ received[2] = <<>>

\* C30: an entry leaves the registry by one of three causes only: the close
\* handler of its connection, the error handler of its connection, or a
\* pass that finds its socket not OPEN.  An accept, a frame that is not
\* broadcast, a send that throws and the shutdown remove nothing: after
\* SIGINT the entries are still there, with their closes requested, and go
\* when their close events are handled.
C30_RemovalCauses ==
    /\ lastEvent.op # "idle" =>
          \A k \in BeforeKeys \ Keys :
             \/ lastEvent.op = "close" /\ lastEvent.id = k
             \/ lastEvent.op = "error" /\ lastEvent.id = k
             \/ /\ SendMessageTurn
                /\ lastEvent.stateBefore[k] # "OPEN"
                /\ k \in lastEvent.pruned
    /\ lastEvent.op = "connection" => BeforeKeys \subseteq Keys
    /\ (lastEvent.op = "message" /\ lastEvent.outcome # "broadcast")
          => connections = lastEvent.before
    /\ SendMessageTurn => lastEvent.failed \subseteq Keys
    /\ lastEvent.op \in {"SIGINT", "closed", "server error", "listening"}
          => connections = lastEvent.before

\* SIGINT with three registered connections: the closes are requested and
\* the three entries are still in the registry.
C30_Witness ==
    /\ lastEvent.op = "SIGINT"
    /\ lastEvent.before = <<1, 2, 3>>
    /\ connections = <<1, 2, 3>>
    /\ \A k \in Keys : readyState[k] # "OPEN"
    /\ \E k \in Keys : lastEvent.stateBefore[k] = "OPEN"

====
